---- MODULE Spec2Model ----
(***************************************************************************)
(* Model of navjots35/newsxai: the fetch_url_content tool and the Prefect  *)
(* flow controlflow_news_pipeline (src/flows/news.py).                     *)
(*                                                                         *)
(* Spec      : flow runs sharing one Python process, as the flow's code    *)
(*             executes them (secrets, os.environ, cf.settings, run()).    *)
(* StageSpec : the tool and the task objectives applied to drawn inputs.   *)
(***************************************************************************)
EXTENDS Integers, Sequences, FiniteSets, TLC

VARIABLES
    \* ---- Spec: the process and its flow runs
    store,      \* Prefect Secret blocks that exist (block names)
    environ,    \* os.environ, the four AZURE_OPENAI_* entries
    llm_model,  \* cf.settings.llm_model
    pc,         \* per run: position in controlflow_news_pipeline
    args,       \* per run: the four *_block_name arguments
    loaded,     \* per run: the secret values the run loaded
    found,      \* per run: what the Source Finder LLM answers when asked
    web,        \* per run: what the network answers to the run's GET
    started,    \* per run: the cf tasks an agent has started
    result,     \* per run: the cf tasks' results
    used,       \* per run: per started task, the configuration its LLM call read
    fetches,    \* per run: number of requests.get calls
    final,      \* per run: the value the flow returned
    \* ---- StageSpec: one stage after the other on a drawn response
    hpc, hResp, hTool, hRec, hRep

vars == <<store, environ, llm_model, pc, args, loaded, found, web, started,
          result, used, fetches, final, hpc, hResp, hTool, hRec, hRep>>

procVars == <<store, environ, llm_model, pc, args, loaded, found, web, started,
              result, used, fetches, final>>
stageVars == <<hpc, hResp, hTool, hRec, hRep>>

(***************************************************************************)
(* Text.  A Python str is a sequence of runs <<c, n>>: character c, n      *)
(* times.  Operators are defined on the characters, not on the runs.       *)
(***************************************************************************)
Lit(s) == [i \in 1..Len(s) |-> <<s[i], 1>>]

RECURSIVE TLen(_)
TLen(t) == IF t = <<>> THEN 0 ELSE t[1][2] + TLen(Tail(t))

\* t[:k]
RECURSIVE Take(_, _)
Take(t, k) ==
    IF t = <<>> \/ k <= 0 THEN <<>>
    ELSE IF t[1][2] <= k THEN <<t[1]>> \o Take(Tail(t), k - t[1][2])
    ELSE << <<t[1][1], k>> >>

\* canonical form: no empty run, no two adjacent runs of one character
RECURSIVE Norm(_)
Norm(t) ==
    IF t = <<>> THEN <<>>
    ELSE LET r == Norm(Tail(t)) IN
         IF t[1][2] = 0 THEN r
         ELSE IF r # <<>> /\ r[1][1] = t[1][1]
              THEN << <<t[1][1], t[1][2] + r[1][2]>> >> \o Tail(r)
              ELSE <<t[1]>> \o r

Whitespace == {" ", "\n", "\t"}

RECURSIVE LStrip(_)
LStrip(t) ==
    IF t = <<>> THEN <<>>
    ELSE IF t[1][1] \in Whitespace \/ t[1][2] = 0 THEN LStrip(Tail(t)) ELSE t

RECURSIVE RStrip(_)
RStrip(t) ==
    IF t = <<>> THEN <<>>
    ELSE IF t[Len(t)][1] \in Whitespace \/ t[Len(t)][2] = 0
         THEN RStrip(SubSeq(t, 1, Len(t) - 1)) ELSE t

\* str.strip()
Strip(t) == RStrip(LStrip(t))

\* the characters of t, no run longer than cap
RECURSIVE Chars(_, _)
Chars(t, cap) ==
    IF t = <<>> THEN <<>>
    ELSE LET n == IF t[1][2] < cap THEN t[1][2] ELSE cap
         IN  [i \in 1..n |-> t[1][1]] \o Chars(Tail(t), cap)

\* t.startswith(m), m a tuple of characters
StartsWith(t, m) == Chars(Take(t, Len(m)), Len(m)) = m

\* m in t.  A run longer than m is cut to Len(m): an occurrence of m takes
\* at most Len(m) characters of any run, so the cut neither adds nor loses one.
Contains(t, m) ==
    LET c == Chars(t, Len(m))
    IN  \E i \in 0..(Len(c) - Len(m)) : SubSeq(c, i + 1, i + Len(m)) = m

\* sep.join(ts)
RECURSIVE Join(_, _)
Join(sep, ts) ==
    IF ts = <<>> THEN <<>>
    ELSE IF Len(ts) = 1 THEN ts[1]
    ELSE ts[1] \o sep \o Join(sep, Tail(ts))

NL == << <<"\n", 1>> >>

(***************************************************************************)
(* The parsed document: a forest of nodes [tag, text, kids]; a string of   *)
(* the document is a node of tag "#text".                                  *)
(***************************************************************************)
TextNode(t) == [tag |-> "#text", text |-> t, kids |-> <<>>]
Elem(tag, kids) == [tag |-> tag, text |-> <<>>, kids |-> kids]

\* for script_or_style in soup(["script", "style"]): script_or_style.decompose()
RECURSIVE decompose(_)
decompose(ns) ==
    IF ns = <<>> THEN <<>>
    ELSE IF ns[1].tag \in {"script", "style"} THEN decompose(Tail(ns))
    ELSE <<[ns[1] EXCEPT !.kids = decompose(ns[1].kids)]>> \o decompose(Tail(ns))

\* soup.find_all(tag): the elements of that tag, in document order
RECURSIVE find_all(_, _)
find_all(ns, tag) ==
    IF ns = <<>> THEN <<>>
    ELSE (IF ns[1].tag = tag THEN <<ns[1]>> ELSE <<>>)
         \o find_all(ns[1].kids, tag) \o find_all(Tail(ns), tag)

\* the strings below ns, in document order
RECURSIVE all_strings(_)
all_strings(ns) ==
    IF ns = <<>> THEN <<>>
    ELSE (IF ns[1].tag = "#text" THEN <<ns[1].text>> ELSE all_strings(ns[1].kids))
         \o all_strings(Tail(ns))

\* the non-empty members of ts
RECURSIVE NonEmpty(_)
NonEmpty(ts) ==
    IF ts = <<>> THEN <<>>
    ELSE (IF TLen(ts[1]) > 0 THEN <<ts[1]>> ELSE <<>>) \o NonEmpty(Tail(ts))

\* get_text(separator=sep, strip=True): every string stripped, the empty ones
\* dropped, the rest joined by sep
get_text_strip(ns, sep) ==
    LET ss == all_strings(ns)
    IN  Join(sep, NonEmpty([i \in 1..Len(ss) |-> Strip(ss[i])]))

\* seeded fault: the paragraphs joined by a space
paragraphs_text_Spaced(soup) ==
    LET ps == find_all(soup, "p")
    IN  Join(<< <<" ", 1>> >>,
             NonEmpty([i \in 1..Len(ps) |-> get_text_strip(ps[i].kids, <<>>)]))

\* "\n".join(p.get_text(strip=True) for p in paragraphs if p.get_text(strip=True))
paragraphs_text(soup) ==
    LET ps == find_all(soup, "p")
    IN  Join(NL, NonEmpty([i \in 1..Len(ps) |-> get_text_strip(ps[i].kids, <<>>)]))

\* lines 33-37: the paragraphs' text, else the full-document text
text_content(soup) ==
    IF TLen(paragraphs_text(soup)) = 0
    THEN get_text_strip(soup, NL)
    ELSE paragraphs_text(soup)

max_length == 8000

\* seeded fault: one character too many
truncate_OffByOne(t) == Take(t, max_length + 1)

\* return text_content[:max_length]
truncate(t) == Take(t, max_length)

(***************************************************************************)
(* requests.get and raise_for_status.  A response is what the network      *)
(* does: exc names the exception requests.get raises ("none": it returns), *)
(* status and body are the reply's.                                        *)
(***************************************************************************)
RequestExceptions == {"ConnectionError", "Timeout", "HTTPError"}

\* str(e)
ExcText(e) ==
    CASE e = "Timeout" -> Lit(<<"t", "i", "m", "e", "d", " ", "o", "u", "t">>)
      [] e = "ConnectionError" -> Lit(<<"r", "e", "f", "u", "s", "e", "d">>)
      [] e = "HTTPError" -> Lit(<<"4", "x", "x">>)
      [] OTHER -> Lit(<<"b", "a", "d">>)

\* response.raise_for_status(): HTTPError for 400 <= status < 600
raise_for_status(status) == 400 <= status /\ status < 600

ErrorMarker == <<"E", "r", "r", "o", "r", ":">>
CouldNotFetch ==
    <<" ", "C", "o", "u", "l", "d", " ", "n", "o", "t", " ", "f", "e", "t", "c",
      "h", " ", "c", "o", "n", "t", "e", "n", "t", " ", "f", "r", "o", "m", " ",
      "U", "R", "L", ".", " ">>
CouldNotProcess ==
    <<" ", "C", "o", "u", "l", "d", " ", "n", "o", "t", " ", "p", "r", "o", "c",
      "e", "s", "s", " ", "c", "o", "n", "t", "e", "n", "t", " ", "f", "r", "o",
      "m", " ", "U", "R", "L", ".", " ">>

Return(v) == [kind |-> "return", value |-> v]
Raise(e) == [kind |-> "raise", value |-> ExcText(e)]

\* seeded fault: the first clause re-raises, as the flow's handlers do
on_exception_Reraise(e) ==
    IF e \in RequestExceptions
    THEN Raise(e)
    ELSE Return(Lit(ErrorMarker \o CouldNotProcess) \o ExcText(e))

\* the two except clauses, lines 42-47
on_exception(e) ==
    IF e \in RequestExceptions
    THEN Return(Lit(ErrorMarker \o CouldNotFetch) \o ExcText(e))
    ELSE Return(Lit(ErrorMarker \o CouldNotProcess) \o ExcText(e))

\* the exception the try block ends in, "none" when it reaches its return
try_exception(resp) ==
    IF resp.exc # "none" THEN resp.exc
    ELSE IF raise_for_status(resp.status) THEN "HTTPError"
    ELSE "none"

fetch_url_content(resp) ==
    IF try_exception(resp) # "none"
    THEN on_exception(try_exception(resp))
    ELSE Return(truncate(text_content(decompose(resp.body))))

(***************************************************************************)
(* The four controlflow tasks, lines 127-182.  An agent that works on a    *)
(* task does what the task's objective says with the context it is given.  *)
(* A task's outcome is [status, value, gets]: gets counts the calls of the *)
(* fetch_url_content tool the agent made.                                  *)
(***************************************************************************)
Tasks == {"task_find_sources", "task_scrape_content", "task_organize_news",
          "task_present_news"}

Done(v, g) == [status |-> "successful", value |-> v, gets |-> g]
Failed(g) == [status |-> "failed", value |-> <<>>, gets |-> g]

ErrorRecord == [error |-> "Could not process article content."]
SuccessRecords ==
    {[headline |-> h, summary |-> "summary", keywords |-> <<"kw1", "kw2", "kw3">>]
        : h \in {"headline-1", "headline-2"}}
ArticleRecords == {ErrorRecord} \cup SuccessRecords

\* seeded fault: only the bare marker counts
contains_error_message_Exact(text) == Chars(text, Len(ErrorMarker) + 1) = ErrorMarker

\* "If the text contains an error message starting with 'Error:'"
contains_error_message(text) == Contains(text, ErrorMarker)

\* objective of task_organize_news, lines 151-160: the dictionaries it allows
\* for a text
task_organize_news(text) ==
    IF contains_error_message(text) THEN {ErrorRecord} ELSE SuccessRecords

\* objective of task_present_news, lines 167-178: a report is its lines
ErrorReport(rec) == << <<"Error", rec.error>> >>
NewsReport(rec) ==
    << <<"--- News Report ---">>,
       <<"Headline: ", rec.headline>>,
       <<"Summary: ", rec.summary>>,
       <<"Keywords: ", rec.keywords>>,
       <<"-------------------">> >>

task_present_news(rec) ==
    IF "error" \in DOMAIN rec THEN {ErrorReport(rec)} ELSE {NewsReport(rec)}

Reports == UNION {task_present_news(rec) : rec \in ArticleRecords}

\* objective of task_scrape_content, lines 139-144: the tool's text for the
\* first URL, w being what the network answers
task_scrape_content(urls, w) ==
    IF urls # <<>> THEN {Done(fetch_url_content(w).value, 1)}
    ELSE {Failed(0), Done(fetch_url_content(w).value, 1)}

(***************************************************************************)
(* Inputs of StageSpec: documents of at most MaxNodes top-level nodes.     *)
(* "#js" and "#css" stand for the characters of a script and of a style    *)
(* element; no other text of a document holds them.                        *)
(***************************************************************************)
MaxNodes == 2

LongRun == max_length

P(kids) == Elem("p", kids)
Script == Elem("script", <<TextNode(<< <<"#js", 3>> >>)>>)
Style == Elem("style", <<TextNode(<< <<"#css", 2>> >>)>>)

NodePool ==
    { P(<<TextNode(<< <<" ", 1>>, <<"a", 1>>, <<"\n", 1>> >>)>>),
      P(<<TextNode(<< <<"a", LongRun>> >>)>>),
      P(<<TextNode(Lit(ErrorMarker) \o << <<" ", 1>>, <<"a", 2>> >>)>>),
      P(<<TextNode(<< <<" ", 2>>, <<"b", 1>> >>), Script,
          TextNode(<< <<"a", 1>>, <<" ", 1>> >>)>>),
      P(<<TextNode(<< <<" ", 3>> >>)>>),
      Elem("div", <<TextNode(<< <<"b", 2>>, <<" ", 1>> >>), Style>>),
      Elem("div", <<P(<<TextNode(<< <<"b", 1>> >>)>>)>>),
      Script }

Docs == UNION {[1..n -> NodePool] : n \in 0..MaxNodes}

Statuses == {200, 300, 404, 500}
GetExceptions == {"ConnectionError", "Timeout", "Exception"}

Responses ==
    {[exc |-> e, status |-> 0, body |-> <<>>] : e \in GetExceptions}
    \cup {[exc |-> "none", status |-> s, body |-> d] : s \in Statuses, d \in Docs}

(***************************************************************************)
(* The flow controlflow_news_pipeline.  Runs share the Python process:     *)
(* os.environ and cf.settings are the process's, not a run's.              *)
(***************************************************************************)
Runs == {"run-1", "run-2"}

\* the *_block_name parameters: the defaults of lines 53-56, and a caller's
DefaultArgs ==
    [key |-> "azure-openai-api-key", endpoint |-> "azure-openai-endpoint",
     deployment |-> "azure-openai-deployment", version |-> "azure-openai-api-version"]
OtherArgs ==
    [key |-> "team-b-api-key", endpoint |-> "team-b-endpoint",
     deployment |-> "team-b-deployment", version |-> "team-b-api-version"]
ArgChoices == {DefaultArgs, OtherArgs}

ArgFields == {"key", "endpoint", "deployment", "version"}
AllBlocks == {a[f] : a \in ArgChoices, f \in ArgFields}

\* the secret stores drawn: at most MaxMissing of the blocks do not exist
MaxMissing == 1
Stores == {AllBlocks \ m : m \in {x \in SUBSET AllBlocks : Cardinality(x) <= MaxMissing}}

\* Secret.load(name).get()
SecretValue(name) == <<"value of", name>>

\* seeded fault: only the API key block is looked up
missing_blocks_KeyOnly(a, st) == {a.key} \ st

\* lines 74-77: the blocks whose Secret.load raises ObjectNotFound
missing_blocks(a, st) == {a.key, a.endpoint, a.deployment, a.version} \ st

\* lines 80-83
environ_of(a) ==
    [AZURE_OPENAI_API_KEY |-> SecretValue(a.key),
     AZURE_OPENAI_ENDPOINT |-> SecretValue(a.endpoint),
     AZURE_OPENAI_DEPLOYMENT |-> SecretValue(a.deployment),
     AZURE_OPENAI_API_VERSION |-> SecretValue(a.version)]

\* line 96: f"azure-openai/{azure_deployment_block.get()}"
llm_model_of(a) == <<"azure-openai/", SecretValue(a.deployment)>>

\* the dependencies the four cf.Task(...) calls declare (depends_on, context)
depends_on == [t \in Tasks |-> {}]

\* the tasks run() works on: the task and everything upstream of it
Upstream(S) == S \cup UNION {depends_on[t] : t \in S}
Orchestrated(t) == Upstream(Upstream(Upstream({t})))

Context(t, res) == [u \in depends_on[t] |-> res[u]]

\* what an agent can make of task t with context ctx; f is the Source
\* Finder's answer, w the network's.  An objective whose input is not in the
\* context leaves the agent free: any value of the result type, or failure.
AgentOutcomes(t, ctx, f, w) ==
    CASE t = "task_find_sources" -> {Done(f, 0)}
      [] t = "task_scrape_content" ->
            IF "task_find_sources" \in DOMAIN ctx
            THEN task_scrape_content(ctx["task_find_sources"], w)
            ELSE task_scrape_content(<<>>, w)
      [] t = "task_organize_news" ->
            IF "task_scrape_content" \in DOMAIN ctx
            THEN {Done(rec, 0) : rec \in task_organize_news(ctx["task_scrape_content"])}
            ELSE {Failed(0)} \cup {Done(rec, 0) : rec \in ArticleRecords}
      [] t = "task_present_news" ->
            IF "task_organize_news" \in DOMAIN ctx
            THEN {Done(rep, 0) : rep \in task_present_news(ctx["task_organize_news"])}
            ELSE {Failed(0)} \cup {Done(rep, 0) : rep \in Reports}

\* lines 191-196: result_type is str, so the object is the report
final_report(obj) == obj

FoundChoices == {<<>>, <<"https://news.example/a">>,
                 <<"https://news.example/a", "https://news.example/b">>}
WebChoices ==
    {[exc |-> "Timeout", status |-> 0, body |-> <<>>],
     [exc |-> "none", status |-> 200,
      body |-> <<P(<<TextNode(<< <<"a", 3>> >>)>>)>>]}

StageIdle ==
    /\ hpc = "off"
    /\ hResp = [exc |-> "none", status |-> 200, body |-> <<>>]
    /\ hTool = Return(<<>>)
    /\ hRec = ErrorRecord
    /\ hRep = <<>>

Init ==
    /\ store \in Stores
    /\ environ = [AZURE_OPENAI_API_KEY |-> <<>>, AZURE_OPENAI_ENDPOINT |-> <<>>,
                  AZURE_OPENAI_DEPLOYMENT |-> <<>>, AZURE_OPENAI_API_VERSION |-> <<>>]
    /\ llm_model = <<"openai/", "gpt-4o">>
    /\ pc = [r \in Runs |-> "idle"]
    /\ args = [r \in Runs |-> DefaultArgs]
    /\ loaded = [r \in Runs |-> <<>>]
    /\ found = [r \in Runs |-> <<>>]
    /\ web = [r \in Runs |-> [exc |-> "none", status |-> 200, body |-> <<>>]]
    /\ started = [r \in Runs |-> {}]
    /\ result = [r \in Runs |-> <<>>]
    /\ used = [r \in Runs |-> <<>>]
    /\ fetches = [r \in Runs |-> 0]
    /\ final = [r \in Runs |-> <<>>]
    /\ StageIdle

\* the flow is called, lines 51-62
StartRun(r) ==
    /\ pc[r] = "idle"
    /\ \E a \in ArgChoices : args' = [args EXCEPT ![r] = a]
    /\ \E f \in FoundChoices : found' = [found EXCEPT ![r] = f]
    /\ \E w \in WebChoices : web' = [web EXCEPT ![r] = w]
    /\ pc' = [pc EXCEPT ![r] = "config"]
    /\ UNCHANGED <<store, environ, llm_model, loaded, started, result, used,
                   fetches, final, stageVars>>

\* the first try block, lines 65-121
ConfigureRun(r) ==
    /\ pc[r] = "config"
    /\ IF missing_blocks(args[r], store) # {}
       THEN /\ pc' = [pc EXCEPT ![r] = "raised"]
            /\ UNCHANGED <<loaded, environ, llm_model>>
       ELSE /\ loaded' = [loaded EXCEPT ![r] = [f \in ArgFields |-> SecretValue(args[r][f])]]
            /\ environ' = environ_of(args[r])
            /\ llm_model' = llm_model_of(args[r])
            /\ pc' = [pc EXCEPT ![r] = "run"]
    /\ UNCHANGED <<store, args, found, web, started, result, used, fetches,
                   final, stageVars>>

\* task_present_news.run(), line 188: one agent turn on a ready task; a
\* failed task makes run() raise, which lines 204-207 re-raise
AgentTurn(r) ==
    /\ pc[r] = "run"
    /\ \E t \in Orchestrated("task_present_news") :
         /\ t \notin DOMAIN result[r]
         /\ depends_on[t] \subseteq DOMAIN result[r]
         /\ \E o \in AgentOutcomes(t, Context(t, result[r]), found[r], web[r]) :
              /\ started' = [started EXCEPT ![r] = @ \cup {t}]
              /\ used' = [used EXCEPT ![r] =
                            (t :> [environ |-> environ, llm_model |-> llm_model]) @@ @]
              /\ fetches' = [fetches EXCEPT ![r] = @ + o.gets]
              /\ IF o.status = "failed"
                 THEN /\ pc' = [pc EXCEPT ![r] = "raised"]
                      /\ UNCHANGED result
                 ELSE /\ result' = [result EXCEPT ![r] = (t :> o.value) @@ @]
                      /\ pc' = [pc EXCEPT ![r] =
                                  IF t = "task_present_news" THEN "finish" ELSE "run"]
    /\ UNCHANGED <<store, environ, llm_model, args, loaded, found, web, final,
                   stageVars>>

\* lines 191-202
Finish(r) ==
    /\ pc[r] = "finish"
    /\ final' = [final EXCEPT ![r] = final_report(result[r]["task_present_news"])]
    /\ pc' = [pc EXCEPT ![r] = "returned"]
    /\ UNCHANGED <<store, environ, llm_model, args, loaded, found, web, started,
                   result, used, fetches, stageVars>>

Next == \E r \in Runs : StartRun(r) \/ ConfigureRun(r) \/ AgentTurn(r) \/ Finish(r)

Spec == Init /\ [][Next]_vars

(***************************************************************************)
(* StageSpec: fetch_url_content on a drawn response, then the objectives   *)
(* of task_organize_news and task_present_news on what came before.        *)
(***************************************************************************)
ProcIdle ==
    /\ store = {} /\ environ = <<>> /\ llm_model = "" /\ pc = <<>> /\ args = <<>>
    /\ loaded = <<>> /\ found = <<>> /\ web = <<>> /\ started = <<>>
    /\ result = <<>> /\ used = <<>> /\ fetches = <<>> /\ final = <<>>

StageInit ==
    /\ ProcIdle
    /\ hpc = "extract"
    /\ hResp \in Responses
    /\ hTool = Return(<<>>)
    /\ hRec = ErrorRecord
    /\ hRep = <<>>

ApplyExtract ==
    /\ hpc = "extract"
    /\ hTool' = fetch_url_content(hResp)
    /\ hpc' = IF hTool'.kind = "return" THEN "summarize" ELSE "raised"
    /\ UNCHANGED <<hResp, hRec, hRep, procVars>>

ApplySummarize ==
    /\ hpc = "summarize"
    /\ hRec' \in task_organize_news(hTool.value)
    /\ hpc' = "format"
    /\ UNCHANGED <<hResp, hTool, hRep, procVars>>

ApplyFormat ==
    /\ hpc = "format"
    /\ hRep' \in task_present_news(hRec)
    /\ hpc' = "done"
    /\ UNCHANGED <<hResp, hTool, hRec, procVars>>

StageNext == ApplyExtract \/ ApplySummarize \/ ApplyFormat

StageSpec == StageInit /\ [][StageNext]_vars

(***************************************************************************)
(* Properties of the stages, checked under StageSpec.                      *)
(***************************************************************************)
Summarized == hpc \in {"format", "done"}

\* the fetch reached the return of line 41
FetchSucceeded == hResp.exc = "none" /\ ~(400 <= hResp.status /\ hResp.status < 600)

HasChar(t, cs) == \E i \in 1..Len(t) : t[i][2] > 0 /\ t[i][1] \in cs

\* C2 as stated: a network failure, a timeout or a status outside 200..299
\* makes extract return (not raise) a string beginning with "Error:".
C2_AsStated ==
    (hpc # "extract"
       /\ (hResp.exc \in {"ConnectionError", "Timeout"}
             \/ (hResp.exc = "none" /\ ~(200 <= hResp.status /\ hResp.status <= 299))))
    => (hTool.kind = "return" /\ StartsWith(hTool.value, ErrorMarker))

\* C2 amended: a network failure, a timeout or a status in 400..599 makes
\* extract return (not raise) a string that begins with "Error:" and ends
\* with the exception's text.
C2_FailureIsErrorString ==
    (hpc # "extract"
       /\ (hResp.exc \in {"ConnectionError", "Timeout"}
             \/ (hResp.exc = "none" /\ 400 <= hResp.status /\ hResp.status <= 599)))
    => /\ hTool.kind = "return"
       /\ StartsWith(hTool.value, ErrorMarker)
       /\ TLen(hTool.value) > Len(ErrorMarker)

C2_Witness ==
    /\ hpc = "summarize"
    /\ hResp.exc = "none" /\ hResp.status = 404
    /\ StartsWith(hTool.value, ErrorMarker)

C8_AsStated ==
    Summarized =>
       /\ FetchSucceeded => hRec # ErrorRecord
       /\ ~FetchSucceeded => hRec = ErrorRecord

\* C9: the text of a successful fetch has at most 8000 characters and none
\* of a script or style element.
C9_BoundedAndScriptFree ==
    (hpc # "extract" /\ FetchSucceeded)
    => /\ hTool.kind = "return"
       /\ TLen(hTool.value) <= 8000
       /\ ~HasChar(hTool.value, {"#js", "#css"})

C9_Witness ==
    /\ hpc = "summarize" /\ FetchSucceeded
    /\ TLen(text_content(decompose(hResp.body))) > 8000
    /\ TLen(hTool.value) = 8000
    /\ find_all(hResp.body, "script") # <<>>

\* What C10 expects, read off the document as served: the strings outside
\* script and style, each trimmed, the empty ones dropped.
RECURSIVE RefPieces(_)
RefPieces(ns) ==
    IF ns = <<>> THEN <<>>
    ELSE LET n == ns[1] IN
         (CASE n.tag = "#text" ->
                 IF TLen(Strip(n.text)) > 0 THEN <<Strip(n.text)>> ELSE <<>>
            [] n.tag \in {"script", "style"} -> <<>>
            [] OTHER -> RefPieces(n.kids))
         \o RefPieces(Tail(ns))

RECURSIVE RefGlue(_, _)
RefGlue(ts, sep) ==
    IF ts = <<>> THEN <<>>
    ELSE IF Len(ts) = 1 THEN ts[1]
    ELSE RefGlue(SubSeq(ts, 1, Len(ts) - 1), sep) \o sep \o ts[Len(ts)]

\* the paragraphs' texts in document order, the empty ones dropped
RECURSIVE RefParagraphs(_)
RefParagraphs(ns) ==
    IF ns = <<>> THEN <<>>
    ELSE LET n == ns[1]
             own == RefGlue(RefPieces(n.kids), <<>>)
         IN  (IF n.tag \in {"script", "style"} THEN <<>>
              ELSE (IF n.tag = "p" /\ TLen(own) > 0 THEN <<own>> ELSE <<>>)
                   \o RefParagraphs(n.kids))
             \o RefParagraphs(Tail(ns))

RefParagraphText(doc) == RefGlue(RefParagraphs(doc), NL)
RefDocumentText(doc) == RefGlue(RefPieces(doc), NL)

\* C10 as stated: with paragraph text, extract returns the trimmed non-empty
\* paragraph texts joined by newlines in document order.
C10_AsStated ==
    (hpc # "extract" /\ FetchSucceeded /\ TLen(RefParagraphText(hResp.body)) > 0)
    => Norm(hTool.value) = Norm(RefParagraphText(hResp.body))

\* C10 amended: with paragraph text, extract returns the first 8000
\* characters of the non-empty paragraph texts joined by newlines in document
\* order, a paragraph's text being its strings each trimmed and concatenated;
\* without any, the first 8000 characters of the full-document text.
C10_ParagraphsJoinedTruncated ==
    (hpc # "extract" /\ FetchSucceeded)
    => IF TLen(RefParagraphText(hResp.body)) > 0
       THEN Norm(hTool.value) = Norm(Take(RefParagraphText(hResp.body), 8000))
       ELSE Norm(hTool.value) = Norm(Take(RefDocumentText(hResp.body), 8000))

C10_Witness ==
    /\ hpc = "summarize" /\ FetchSucceeded
    /\ Len(RefParagraphs(hResp.body)) = 2
    /\ RefParagraphs(hResp.body)[1] # RefParagraphs(hResp.body)[2]
    /\ Norm(hTool.value) = Norm(RefParagraphText(hResp.body))

(***************************************************************************)
(* Properties of the flow, checked under Spec.                             *)
(***************************************************************************)
Ended(r) == pc[r] \in {"returned", "raised"}
BlocksOf(r) == {args[r][f] : f \in ArgFields}
Configured(r) == pc[r] \notin {"idle", "config"} /\ BlocksOf(r) \subseteq store

Preceding ==
    [task_scrape_content |-> "task_find_sources",
     task_organize_news |-> "task_scrape_content",
     task_present_news |-> "task_organize_news"]

\* C1 as stated: in every run a stage starts only after the stage before it
\* has produced its output, and the Report Formatter's result is a report of
\* the Article Summarizer's record of the same run.
C1_AsStated ==
    \A r \in Runs : \A t \in started[r] \cap DOMAIN Preceding :
        /\ Preceding[t] \in DOMAIN result[r]
        /\ (t = "task_present_news" /\ t \in DOMAIN result[r])
              => result[r][t] \in task_present_news(result[r]["task_organize_news"])

\* C3: a run one of whose four secret blocks is missing ends in a raised
\* fault, with no task started, no fetch made and nothing returned.
C3_MissingConfigAborts ==
    \A r \in Runs :
        (pc[r] \notin {"idle", "config"} /\ ~(BlocksOf(r) \subseteq store))
        => /\ pc[r] = "raised"
           /\ started[r] = {}
           /\ fetches[r] = 0
           /\ loaded[r] = <<>>
           /\ final[r] = <<>>

C3_Witness ==
    \E r \in Runs :
        /\ pc[r] = "raised"
        /\ args[r].key \in store
        /\ args[r].deployment \notin store

\* C4 as stated: every LLM call of a run reads the credentials and the model
\* setting that the same run loaded.
C4_AsStated ==
    \A r \in Runs : \A t \in DOMAIN used[r] :
        /\ used[r][t].environ = environ_of(args[r])
        /\ used[r][t].llm_model = llm_model_of(args[r])

\* C5 as stated: a configured run whose Source Finder has no URL to give
\* makes no fetch and ends by returning the error report, not by raising.
C5_AsStated ==
    \A r \in Runs :
        (Configured(r) /\ Ended(r) /\ found[r] = <<>>)
        => /\ pc[r] = "returned"
           /\ fetches[r] = 0
           /\ final[r] = ErrorReport(ErrorRecord)

\* C6 as stated: a configured run whose URL times out ends by returning the
\* formatted error report, through an extracted text containing "Error:" and
\* the error variant of the summarizer.
C6_AsStated ==
    \A r \in Runs :
        (Configured(r) /\ Ended(r) /\ found[r] # <<>> /\ web[r].exc = "Timeout")
        => /\ pc[r] = "returned"
           /\ "task_scrape_content" \in DOMAIN result[r]
           /\ Contains(result[r]["task_scrape_content"], ErrorMarker)
           /\ "task_organize_news" \in DOMAIN result[r]
           /\ result[r]["task_organize_news"] = ErrorRecord
           /\ final[r] = ErrorReport(ErrorRecord)

====
